---- MODULE Spec2Model ----
(***************************************************************************)
(* Model of src/app.py: the load pipeline (validate_columns, parse_month,    *)
(* compute_kpis, load_data) and the render pass of the dashboard script    *)
(* (filter, KPI cards, per-product aggregate, insight labels).             *)
(*                                                                         *)
(* Numbers are exact rationals extended with the two float values the      *)
(* code can produce from integer division, inf and NaN.  Revenue and the   *)
(* counts are non-negative integers, so -inf never arises.                  *)
(***************************************************************************)
EXTENDS Integers, Sequences, FiniteSets, TLC

VARIABLES
    raw,        \* the frame pd.read_excel returns (line 61): [cols, rows]
    source,     \* "uploaded", "default" or "none" (lines 77-78, 81-88)
    tieOrder,   \* how the build's quicksort leaves equal keys: "keep" or "swap"
                \* ("" until pandas is first used)
    pc,         \* "start", "stopped", "loaded", "done", "crashed"
    err,        \* what st.error showed (line 90)
    df,         \* the table load_data returned (lines 82, 87)
    out         \* what the render pass produced (lines 93-247)

vars == <<raw, source, tieOrder, pc, err, df, out>>

----------------------------------------------------------------------------
(* Bounds of the model *)

MaxRows == 3
NumMonths == 3

Months == 1..NumMonths
Products == {"A", "B"}
NaT == 0

\* sorted() on the product labels (line 102) and the sort of the group keys
ProductRank(p) == IF p = "A" THEN 1 ELSE IF p = "B" THEN 2 ELSE 3

REQUIRED_COLS ==
    <<"Month", "Product", "Leads", "New_Customers", "Churned_Customers",
      "Active_Customers", "Revenue">>

RequiredSet == {REQUIRED_COLS[i] : i \in 1..Len(REQUIRED_COLS)}

\* a column the dashboard does not need
OptionalCols == {"Region"}

----------------------------------------------------------------------------
(* Float values: finite rationals n/d in lowest terms, inf, NaN; None is   *)
(* Python's None (line 130).                                               *)

RECURSIVE GCD(_, _)
GCD(a, b) == IF b = 0 THEN a ELSE GCD(b, a % b)

Abs(x) == IF x < 0 THEN -x ELSE x

Fin(n, d) ==
    LET g == GCD(Abs(n), d)
    IN  [k |-> "fin", n |-> n \div g, d |-> d \div g]

NaN == [k |-> "nan", n |-> 0, d |-> 1]
Inf == [k |-> "inf", n |-> 1, d |-> 1]
None == [k |-> "none", n |-> 0, d |-> 1]
Zero == Fin(0, 1)
One == Fin(1, 1)

IsNaN(x) == x.k = "nan"

\* int / int as a float: x/0 is inf, 0/0 is NaN, nothing raises
Div(a, b) ==
    IF b = 0 THEN (IF a = 0 THEN NaN ELSE Inf)
    ELSE IF b < 0 THEN Fin(-a, -b) ELSE Fin(a, b)

AddQ(x, y) ==
    IF IsNaN(x) \/ IsNaN(y) THEN NaN
    ELSE IF x.k = "inf" \/ y.k = "inf" THEN Inf
    ELSE Fin(x.n * y.d + y.n * x.d, x.d * y.d)

SubQ(x, y) ==
    IF IsNaN(x) \/ IsNaN(y) THEN NaN
    ELSE IF y.k = "inf" THEN NaN
    ELSE IF x.k = "inf" THEN Inf
    ELSE Fin(x.n * y.d - y.n * x.d, x.d * y.d)

DivByCount(x, c) ==
    IF x.k = "fin" THEN Fin(x.n, x.d * c) ELSE x

\* x < y on the non-NaN values
LessQ(x, y) ==
    IF x.k = "inf" THEN FALSE
    ELSE IF y.k = "inf" THEN TRUE
    ELSE x.n * y.d < y.n * x.d

RECURSIVE SumQ(_)
SumQ(s) == IF s = <<>> THEN Zero ELSE AddQ(Head(s), SumQ(Tail(s)))

RECURSIVE SumInt(_)
SumInt(s) == IF s = <<>> THEN 0 ELSE Head(s) + SumInt(Tail(s))

RECURSIVE DropNaN(_)
DropNaN(s) ==
    IF s = <<>> THEN <<>>
    ELSE IF IsNaN(Head(s)) THEN DropNaN(Tail(s))
    ELSE <<Head(s)>> \o DropNaN(Tail(s))

\* Series.mean(): skipna, NaN for no values
MeanAll(s) == IF s = <<>> THEN NaN ELSE DivByCount(SumQ(s), Len(s))

Mean(s) == MeanAll(DropNaN(s))

----------------------------------------------------------------------------
(* The spreadsheet *)

\* a Month cell: text in some format naming month m, or a parsed timestamp
\* fmt "bY" is "Jan-2024", "iso" is "2024-01-15", "junk" is no date at all
Text(fmt, m) == [kind |-> "text", fmt |-> fmt, m |-> m]
Ts(m) == [kind |-> "ts", fmt |-> "", m |-> m]
Formats == {"bY", "iso", "junk"}

\* (Leads, New_Customers, Churned_Customers, Active_Customers, Revenue) of a
\* row: zero and non-zero numerators over zero and non-zero denominators,
\* three revenue levels
Vals(l, n, c, a, r) ==
    [Leads |-> l, New_Customers |-> n, Churned_Customers |-> c,
     Active_Customers |-> a, Revenue |-> r]

RowValues ==
    { Vals(2, 1, 1, 2, 2), Vals(4, 1, 0, 4, 8),
      Vals(0, 0, 0, 0, 0), Vals(0, 1, 1, 0, 2) }

DefaultValues == Vals(2, 1, 1, 2, 2)

Row(cols, month, product, v) ==
    [c \in cols |->
        CASE c = "Month" -> month
          [] c = "Product" -> product
          [] c = "Region" -> "EU"
          [] OTHER -> v[c]]

NoFrame == [cols |-> {}, rows |-> <<>>]
NoError == [kind |-> "none", text |-> "", cols |-> <<>>]

Keys == Products \X Months

Injective(f) == \A i, j \in DOMAIN f : f[i] = f[j] => i = j

NoOutput ==
    [rendered |-> FALSE, product |-> "", start |-> NaT, end |-> NaT,
     f |-> <<>>, total_revenue |-> Zero, avg_conv |-> NaN, avg_churn |-> NaN,
     avg_arpu |-> NaN, mom_growth |-> None, by_product |-> <<>>,
     top_rev |-> "", top_arpu |-> "", low_churn |-> "", insights |-> FALSE,
     exc |-> ""]

\* well-formed sheets ("%b-%Y" months, one row per Product x Month, in any
\* row order) with varied numbers
InitRender ==
    /\ source = "default"
    /\ \E n \in 1..MaxRows :
         \E key \in [1..n -> Keys], v \in [1..n -> RowValues] :
            /\ Injective(key)
            /\ raw = [cols |-> RequiredSet,
                      rows |-> [i \in 1..n |->
                                  Row(RequiredSet, Text("bY", key[i][2]),
                                      key[i][1], v[i])]]

\* sheets of one product whose Month texts are in any of the formats
InitMonths ==
    /\ source = "uploaded"
    /\ \E n \in 1..MaxRows :
         \E month \in [1..n -> Months], fmt \in [1..n -> Formats] :
            /\ Injective(month)
            /\ raw = [cols |-> RequiredSet,
                      rows |-> [i \in 1..n |->
                                  Row(RequiredSet, Text(fmt[i], month[i]),
                                      "A", DefaultValues)]]

\* one-row sheets with any set of columns, and no sheet at all
InitColumns ==
    /\ \/ /\ source \in {"uploaded", "default"}
          /\ \E cols \in SUBSET (RequiredSet \cup OptionalCols), fmt \in Formats :
                raw = [cols |-> cols,
                       rows |-> <<Row(cols, Text(fmt, 1), "A", DefaultValues)>>]
       \/ /\ source = "none"
          /\ raw = NoFrame

Init ==
    /\ pc = "start"
    /\ tieOrder = ""
    /\ err = NoError
    /\ df = <<>>
    /\ out = NoOutput
    /\ (InitRender \/ InitMonths \/ InitColumns)

----------------------------------------------------------------------------
(* Loading: lines 30-64 *)

IsMissing(cols, c) == c \notin cols

\* variant: only the first absent column is reported
validate_first_missing(cols) ==
    LET missing == SelectSeq(REQUIRED_COLS, LAMBDA c : IsMissing(cols, c))
    IN  IF missing = <<>> THEN missing ELSE <<Head(missing)>>

\* line 31: the required columns that are absent, in REQUIRED_COLS order
validate_columns(cols) ==
    SelectSeq(REQUIRED_COLS, LAMBDA c : IsMissing(cols, c))

SchemaError(missing) ==
    [kind |-> "ValueError", text |-> "Missing required columns", cols |-> missing]

MonthError ==
    [kind |-> "ValueError", text |-> "Month column could not be parsed",
     cols |-> <<>>]

\* pd.to_datetime(cell, errors="coerce", format="%b-%Y")
StrictToDatetime(cell) ==
    IF cell.kind = "ts" THEN cell
    ELSE IF cell.fmt = "bY" THEN Ts(cell.m) ELSE Ts(NaT)

\* pd.to_datetime(cell, errors="coerce"): a timestamp (NaT too) stays as it is
GeneralToDatetime(cell) ==
    IF cell.kind = "ts" THEN cell
    ELSE IF cell.fmt \in {"bY", "iso"} THEN Ts(cell.m) ELSE Ts(NaT)

AnyNaT(col) == \E i \in DOMAIN col : col[i].m = NaT

\* line 39 reads df["Month"], which line 37 has already overwritten
FallbackInput(original, coerced) == coerced

\* variant: the check of line 40 left out
NeverRaise(col) == FALSE

\* line 40
MustRaise(col) == AnyNaT(col)

\* lines 35-42
parse_month(rows) ==
    LET original == [i \in DOMAIN rows |-> rows[i].Month]
        strict == [i \in DOMAIN rows |-> StrictToDatetime(original[i])]
        arg == FallbackInput(original, strict)
        month == IF AnyNaT(strict)
                 THEN [i \in DOMAIN rows |-> GeneralToDatetime(arg[i])]
                 ELSE strict
    IN  [raised |-> MustRaise(month), Month |-> month]

\* the key of sort_values(["Product", "Month"])
KeyLess(a, b) ==
    \/ ProductRank(a.Product) < ProductRank(b.Product)
    \/ a.Product = b.Product /\ a.Month < b.Month

RECURSIVE InsertRow(_, _)
InsertRow(x, s) ==
    IF s = <<>> THEN <<x>>
    ELSE IF KeyLess(x, Head(s)) THEN <<x>> \o s
    ELSE <<Head(s)>> \o InsertRow(x, Tail(s))

\* line 49: rows with equal keys keep their order
RECURSIVE sort_values(_)
sort_values(rows) ==
    IF rows = <<>> THEN <<>>
    ELSE InsertRow(rows[Len(rows)],
                   sort_values(SubSeq(rows, 1, Len(rows) - 1)))

\* variant: the row before it in the frame, whatever its product
PrevInFrame(rows, i) == i - 1

\* the row pct_change compares row i with: the one before it in its group
PrevInGroup(rows, i) ==
    LET earlier == {j \in 1..(i - 1) : rows[j].Product = rows[i].Product}
    IN  IF earlier = {} THEN 0 ELSE CHOOSE j \in earlier : \A k \in earlier : k <= j

\* Series.pct_change: cur / prev - 1
PctChange(cur, prev) == SubQ(Div(cur, prev), One)

\* line 50: groupby("Product")["Revenue"].pct_change()
rev_mom_growth(rows, i) ==
    LET j == PrevInGroup(rows, i)
    IN  IF j = 0 THEN NaN ELSE PctChange(rows[i].Revenue, rows[j].Revenue)

Ratio(num, den) == Div(num, den)

\* lines 44-51
compute_kpis(rows, month) ==
    LET kpi == [i \in DOMAIN rows |->
                  [Month |-> month[i].m,
                   Product |-> rows[i].Product,
                   Leads |-> rows[i].Leads,
                   New_Customers |-> rows[i].New_Customers,
                   Churned_Customers |-> rows[i].Churned_Customers,
                   Active_Customers |-> rows[i].Active_Customers,
                   Revenue |-> rows[i].Revenue,
                   conversion_rate |-> Ratio(rows[i].New_Customers, rows[i].Leads),
                   churn_rate |-> Ratio(rows[i].Churned_Customers,
                                        rows[i].Active_Customers),
                   arpu |-> Ratio(rows[i].Revenue, rows[i].Active_Customers)]]
        sorted == sort_values(kpi)
    IN  [i \in DOMAIN sorted |->
            [Month |-> sorted[i].Month,
             Product |-> sorted[i].Product,
             Leads |-> sorted[i].Leads,
             New_Customers |-> sorted[i].New_Customers,
             Churned_Customers |-> sorted[i].Churned_Customers,
             Active_Customers |-> sorted[i].Active_Customers,
             Revenue |-> sorted[i].Revenue,
             conversion_rate |-> sorted[i].conversion_rate,
             churn_rate |-> sorted[i].churn_rate,
             arpu |-> sorted[i].arpu,
             rev_mom_growth |-> rev_mom_growth(sorted, i)]]

\* lines 59-64: validate, then parse, then the KPIs
load_data(frame) ==
    LET missing == validate_columns(frame.cols)
    IN  IF missing # <<>> THEN [err |-> SchemaError(missing), df |-> <<>>]
        ELSE LET pm == parse_month(frame.rows)
             IN  IF pm.raised THEN [err |-> MonthError, df |-> <<>>]
                 ELSE [err |-> NoError,
                       df |-> compute_kpis(frame.rows, pm.Month)]

\* lines 80-91: load, and on any exception st.error and st.stop
Load ==
    /\ pc = "start"
    /\ source # "none"
    /\ LET r == load_data(raw)
       IN  /\ err' = r.err
           /\ df' = r.df
           /\ pc' = IF r.err.kind = "none" THEN "loaded" ELSE "stopped"
    /\ raw' = NoFrame
    /\ tieOrder' \in {"keep", "swap"}
    /\ UNCHANGED <<source, out>>

\* lines 85-86: nothing uploaded and the sample not wanted
NoSource ==
    /\ pc = "start"
    /\ source = "none"
    /\ pc' = "stopped"
    /\ UNCHANGED <<raw, source, tieOrder, err, df, out>>

----------------------------------------------------------------------------
(* The render pass: lines 93-247 *)

ProductsIn(rows) == {rows[i].Product : i \in DOMAIN rows}
MonthsIn(rows) == {rows[i].Month : i \in DOMAIN rows}

MinOf(S) == CHOOSE x \in S : \A y \in S : x <= y
MaxOf(S) == CHOOSE x \in S : \A y \in S : y <= x

RECURSIVE Sorted(_)
Sorted(S) == IF S = {} THEN <<>> ELSE <<MinOf(S)>> \o Sorted(S \ {MinOf(S)})

Column(rows, c) == [i \in DOMAIN rows |-> rows[i][c]]

InRange(r, start, end) == r.Month >= start /\ r.Month <= end

\* variant: the growth is computed again over the rows that survive
filter_recomputed(rows, product, start, end) ==
    LET f == SelectSeq(rows, LAMBDA r :
                 InRange(r, start, end) /\ (product = "All" \/ r.Product = product))
    IN  [i \in DOMAIN f |->
            [f[i] EXCEPT !.rev_mom_growth = rev_mom_growth(f, i)]]

\* lines 116-118: a boolean-mask selection, a new frame whose rows are rows
\* of df
filter(rows, product, start, end) ==
    LET f == SelectSeq(rows, LAMBDA r : InRange(r, start, end))
    IN  IF product # "All"
        THEN SelectSeq(f, LAMBDA r : r.Product = product)
        ELSE f

\* variant: the Revenue of the first row of the month, not the sum
RevenueOfFirstRow(f, month) ==
    LET rows == SelectSeq(f, LAMBDA r : r.Month = month)
    IN  IF rows = <<>> THEN 0 ELSE rows[1].Revenue

\* lines 133-134: f[f["Month"] == month]["Revenue"].sum()
RevenueOf(f, month) ==
    SumInt(Column(SelectSeq(f, LAMBDA r : r.Month = month), "Revenue"))

\* lines 128-135
mom_growth(f) ==
    LET latest_month == IF f = <<>> THEN NaT ELSE MaxOf(MonthsIn(f))
        prev_months == Sorted(MonthsIn(f))
    IN  IF Len(prev_months) >= 2
        THEN LET prev == prev_months[Len(prev_months) - 1]
                 rev_latest == RevenueOf(f, latest_month)
                 rev_prev == RevenueOf(f, prev)
             IN  IF rev_prev # 0
                 THEN Div(rev_latest - rev_prev, rev_prev)
                 ELSE None
        ELSE None

\* Series.mean() of a column of ratios (lines 124-126, 227-229)
mean(rows, c) == Mean(Column(rows, c))

\* Series.sum() of Revenue (lines 123, 226)
sum(rows) == Fin(SumInt(Column(rows, "Revenue")), 1)

RECURSIVE SortedProducts(_)
SortedProducts(S) ==
    IF S = {} THEN <<>>
    ELSE LET p == CHOOSE x \in S : \A y \in S : ProductRank(x) <= ProductRank(y)
         IN  <<p>> \o SortedProducts(S \ {p})

\* lines 223-231: one row per product of f, in product order
by_product(f) ==
    LET keys == SortedProducts(ProductsIn(f))
    IN  [i \in DOMAIN keys |->
            LET g == SelectSeq(f, LAMBDA r : r.Product = keys[i])
            IN  [Product |-> keys[i],
                 revenue |-> sum(g),
                 arpu |-> mean(g, "arpu"),
                 churn |-> mean(g, "churn_rate"),
                 conversion |-> mean(g, "conversion_rate")]]

\* whether row i comes before row j in sort_values(col, ascending).  The
\* default kind is quicksort, which does not promise the order of equal keys:
\* tie is "keep" where the build leaves them as they were and "swap" where it
\* does not.
Before(tbl, col, ascending, tie, i, j) ==
    LET a == tbl[i][col]
        b == tbl[j][col]
    IN  IF ascending /\ LessQ(a, b) THEN TRUE
        ELSE IF ascending /\ LessQ(b, a) THEN FALSE
        ELSE IF ~ascending /\ LessQ(b, a) THEN TRUE
        ELSE IF ~ascending /\ LessQ(a, b) THEN FALSE
        ELSE IF tie = "keep" THEN i < j ELSE i > j

RECURSIVE InsertIndex(_, _, _, _, _, _)
InsertIndex(tbl, col, ascending, tie, i, s) ==
    IF s = <<>> THEN <<i>>
    ELSE IF Before(tbl, col, ascending, tie, i, Head(s)) THEN <<i>> \o s
    ELSE <<Head(s)>> \o InsertIndex(tbl, col, ascending, tie, i, Tail(s))

RECURSIVE SortIndex(_, _, _, _, _)
SortIndex(tbl, col, ascending, tie, idx) ==
    IF idx = <<>> THEN <<>>
    ELSE InsertIndex(tbl, col, ascending, tie, idx[Len(idx)],
                     SortIndex(tbl, col, ascending, tie,
                               SubSeq(idx, 1, Len(idx) - 1)))

\* DataFrame.sort_values(col, ascending): the rows with a value ordered by
\* it, then the NaN rows in their own order
SortedIndex(tbl, col, ascending, tie) ==
    LET valued == {i \in DOMAIN tbl : ~IsNaN(tbl[i][col])}
        nans == {i \in DOMAIN tbl : IsNaN(tbl[i][col])}
    IN  SortIndex(tbl, col, ascending, tie, Sorted(valued)) \o Sorted(nans)

\* variant: iloc[-1] in place of iloc[0]
Last(tbl, col, ascending, tie) ==
    LET idx == SortedIndex(tbl, col, ascending, tie)
    IN  IF idx = <<>> THEN [raised |-> TRUE, label |-> ""]
        ELSE [raised |-> FALSE, label |-> tbl[idx[Len(idx)]].Product]

\* lines 233-235: sort_values(...).iloc[0]["Product"]; "" with raised set is
\* the IndexError of iloc[0] on a frame without rows
First(tbl, col, ascending, tie) ==
    LET idx == SortedIndex(tbl, col, ascending, tie)
    IN  IF idx = <<>> THEN [raised |-> TRUE, label |-> ""]
        ELSE [raised |-> FALSE, label |-> tbl[idx[1]].Product]

\* the whole script body after the load
render(table, product, start, end, tie) ==
    LET f == filter(table, product, start, end)
        agg == by_product(f)
        rev == First(agg, "revenue", FALSE, tie)
        arpu == First(agg, "arpu", FALSE, tie)
        churn == First(agg, "churn", TRUE, tie)
        raised == rev.raised \/ arpu.raised \/ churn.raised
    IN  [rendered |-> TRUE, product |-> product, start |-> start, end |-> end,
         f |-> f,
         total_revenue |-> sum(f),
         avg_conv |-> mean(f, "conversion_rate"),
         avg_churn |-> mean(f, "churn_rate"),
         avg_arpu |-> mean(f, "arpu"),
         mom_growth |-> mom_growth(f),
         by_product |-> agg,
         top_rev |-> rev.label,
         top_arpu |-> arpu.label,
         low_churn |-> churn.label,
         insights |-> ~raised,
         exc |-> IF raised THEN "IndexError" ELSE ""]

\* one run of the script body with the widgets as chosen: the first run, a
\* run after Rerun, or a run with the widgets left as they were, while the
\* page still shows the run before
Render(product, start, end) ==
    /\ \/ pc = "loaded"
       \/ /\ pc \in {"done", "crashed"}
          /\ product = out.product /\ start = out.start /\ end = out.end
    /\ product \in {"All"} \cup ProductsIn(df)
    /\ start \in MinOf(MonthsIn(df))..MaxOf(MonthsIn(df))
    /\ end \in start..MaxOf(MonthsIn(df))
    /\ out' = render(df, product, start, end, tieOrder)
    /\ pc' = IF out'.exc = "" THEN "done" ELSE "crashed"
    /\ UNCHANGED <<raw, source, tieOrder, err, df>>

\* a widget was changed: the script starts again from the top with a cleared
\* page, and load_data (line 59, st.cache_data) returns the table it has
Rerun ==
    /\ pc \in {"done", "crashed"}
    /\ pc' = "loaded"
    /\ out' = NoOutput
    /\ UNCHANGED <<raw, source, tieOrder, err, df>>

Next ==
    \/ Load
    \/ NoSource
    \/ Rerun
    \/ \E product \in Products \cup {"All"}, start \in Months, end \in Months :
          Render(product, start, end)

Spec == Init /\ [][Next]_vars
----------------------------------------------------------------------------
(* Properties *)

Loaded == pc \in {"loaded", "done", "crashed"}

RECURSIVE RevenueOver(_, _)
RevenueOver(rows, S) ==
    IF S = {} THEN 0
    ELSE LET i == CHOOSE x \in S : TRUE
         IN  rows[i].Revenue + RevenueOver(rows, S \ {i})

\* the rows of a product's group that lie before month m
EarlierOf(rows, i) ==
    {j \in DOMAIN rows : rows[j].Product = rows[i].Product
                         /\ rows[j].Month < rows[i].Month}

LatestOf(rows, S) == CHOOSE j \in S : \A k \in S : rows[k].Month <= rows[j].Month

\* C1: whenever the filtered subset is empty the pass completes without
\* raising, the averages and the growth are undefined, the three labels are
\* absent and by_product is empty.
C1_EmptySubsetCompletes ==
    (out.rendered /\ out.f = <<>>) =>
        /\ pc = "done"
        /\ out.exc = ""
        /\ out.by_product = <<>>
        /\ IsNaN(out.avg_conv) /\ IsNaN(out.avg_churn) /\ IsNaN(out.avg_arpu)
        /\ out.mom_growth = None
        /\ out.top_rev = "" /\ out.top_arpu = "" /\ out.low_churn = ""

ParseableByEither(cell) ==
    StrictToDatetime(cell).m # NaT \/ GeneralToDatetime(cell).m # NaT

\* C2: a sheet with all required columns is accepted, with every Month
\* defined, exactly when each Month text is parseable by the strict pattern
\* or by the general parse of that text; otherwise the month error is
\* raised.
C2_FallbackOnOriginalText ==
    [][ (pc = "start" /\ pc' # "start" /\ source # "none"
         /\ validate_columns(raw.cols) = <<>>) =>
          IF \A i \in DOMAIN raw.rows : ParseableByEither(raw.rows[i].Month)
          THEN /\ err' = NoError
               /\ pc' = "loaded"
               /\ Len(df') = Len(raw.rows)
               /\ \A i \in DOMAIN df' : df'[i].Month # NaT
          ELSE err' = MonthError /\ pc' = "stopped" ]_vars

Measured(rows, den) == SelectSeq(rows, LAMBDA r : r[den] # 0)

ExactRatios(rows, num, den) ==
    LET m == Measured(rows, den)
    IN  [i \in DOMAIN m |-> Fin(m[i][num], m[i][den])]

GroupOf(rows, p) == SelectSeq(rows, LAMBDA r : r.Product = p)

\* C3: a record with Active_Customers = 0 has undefined churn_rate and arpu
\* (conversion_rate when Leads = 0), whatever the numerator, and every mean
\* over those fields is the mean over the other records only.
C3_ZeroDenominatorUndefined ==
    /\ \A i \in DOMAIN df :
          /\ df[i].Active_Customers = 0 =>
                IsNaN(df[i].churn_rate) /\ IsNaN(df[i].arpu)
          /\ df[i].Leads = 0 => IsNaN(df[i].conversion_rate)
    /\ out.rendered =>
          /\ out.avg_churn =
                MeanAll(ExactRatios(out.f, "Churned_Customers", "Active_Customers"))
          /\ out.avg_arpu =
                MeanAll(ExactRatios(out.f, "Revenue", "Active_Customers"))
          /\ out.avg_conv = MeanAll(ExactRatios(out.f, "New_Customers", "Leads"))
          /\ \A i \in DOMAIN out.by_product :
                LET g == GroupOf(out.f, out.by_product[i].Product)
                IN  /\ out.by_product[i].churn =
                          MeanAll(ExactRatios(g, "Churned_Customers",
                                              "Active_Customers"))
                    /\ out.by_product[i].arpu =
                          MeanAll(ExactRatios(g, "Revenue", "Active_Customers"))
                    /\ out.by_product[i].conversion =
                          MeanAll(ExactRatios(g, "New_Customers", "Leads"))

\* C4: in the loaded table the growth of a product's earliest month is
\* undefined, and the growth of any later month is (Revenue - prev) / prev
\* with prev the Revenue of the latest earlier month of the same product.
C4_GrowthWithinProduct ==
    \A i \in DOMAIN df :
        LET earlier == EarlierOf(df, i)
        IN  IF earlier = {} THEN IsNaN(df[i].rev_mom_growth)
            ELSE LET prev == df[LatestOf(df, earlier)].Revenue
                 IN  df[i].rev_mom_growth = Div(df[i].Revenue - prev, prev)

\* a second product's first row follows a row of the first product, and a
\* later month of a product has a finite growth
C4_Witness ==
    /\ Loaded
    /\ \E i, j \in DOMAIN df :
          /\ j = i + 1
          /\ df[i].Product # df[j].Product
          /\ df[i].Revenue # 0
    /\ \E i \in DOMAIN df :
          df[i].rev_mom_growth.k = "fin" /\ df[i].rev_mom_growth.n # 0

SeqToSet(s) == {s[i] : i \in DOMAIN s}

\* C5: loading raises the schema error iff a required column is absent; the
\* message names exactly the absent ones, each once; nothing is parsed or
\* computed for such a sheet.
C5_SchemaErrorIffMissing ==
    [][ (pc = "start" /\ pc' # "start" /\ source # "none") =>
          LET absent == RequiredSet \ raw.cols
          IN  /\ (err'.text = "Missing required columns") <=> (absent # {})
              /\ absent # {} =>
                    /\ err'.kind = "ValueError"
                    /\ SeqToSet(err'.cols) = absent
                    /\ Len(err'.cols) = Cardinality(absent)
                    /\ df' = <<>>
                    /\ pc' = "stopped" ]_vars

C5_Witness ==
    /\ pc = "stopped"
    /\ err.text = "Missing required columns"
    /\ Len(err.cols) >= 2
    /\ Len(err.cols) < Len(REQUIRED_COLS)

\* C6: mom_growth compares the two latest distinct months of the filtered
\* subset: (R_latest - R_prev) / R_prev over the summed Revenue of the rows
\* of f in each; it is undefined with fewer than two months or R_prev = 0.
C6_MomGrowthOfSubset ==
    out.rendered =>
        LET months == MonthsIn(out.f)
        IN  IF Cardinality(months) < 2 THEN out.mom_growth = None
            ELSE LET latest == MaxOf(months)
                     second == MaxOf(months \ {latest})
                     R_latest == RevenueOver(out.f,
                                    {i \in DOMAIN out.f : out.f[i].Month = latest})
                     R_prev == RevenueOver(out.f,
                                    {i \in DOMAIN out.f : out.f[i].Month = second})
                 IN  IF R_prev = 0 THEN out.mom_growth = None
                     ELSE out.mom_growth = Fin(R_latest - R_prev, R_prev)

\* the subset's latest month is not the table's, three months survive, and
\* the growth is a number
C6_Witness ==
    /\ out.rendered
    /\ out.mom_growth.k = "fin"
    /\ out.mom_growth.n # 0
    /\ MaxOf(MonthsIn(out.f)) < MaxOf(MonthsIn(df))

\* C7: selecting a product p of the table gives exactly the rows of p in
\* [start, end], by_product has rows only for p, and the three labels are p;
\* "All" gives exactly the rows in [start, end].
C7_ProductFilterExact ==
    out.rendered =>
        LET wanted == SelectSeq(df, LAMBDA r :
                          /\ r.Month >= out.start /\ r.Month <= out.end
                          /\ (out.product = "All" \/ r.Product = out.product))
        IN  /\ out.f = wanted
            /\ out.product # "All" =>
                  /\ \A i \in DOMAIN out.by_product :
                        out.by_product[i].Product = out.product
                  /\ out.top_rev = out.product
                  /\ out.top_arpu = out.product
                  /\ out.low_churn = out.product

\* C8: after a load error nothing of the body is rendered and the pass has
\* stopped; the body is rendered only from a table that passed both checks.
C8_NoBodyAfterError ==
    /\ err.kind # "none" => pc = "stopped" /\ ~out.rendered /\ df = <<>>
    /\ pc = "stopped" => ~out.rendered
    /\ out.rendered =>
          /\ err = NoError
          /\ df # <<>>
          /\ \A i \in DOMAIN df : df[i].Month # NaT

C8_Witness == pc = "stopped" /\ err = MonthError /\ ~out.rendered

SameChoice(o1, o2) ==
    o1.product = o2.product /\ o1.start = o2.start /\ o1.end = o2.end

\* C9: a render pass leaves df as it is, the rows of the subset are rows of
\* df (with the growth computed over the whole table), and a pass with the
\* same choice as the one before yields the same output.
C9_FilterIsPure ==
    [][ Loaded =>
          /\ df' = df
          /\ \A i \in DOMAIN out'.f : \E j \in DOMAIN df : out'.f[i] = df[j]
          /\ (out.rendered /\ SameChoice(out, out')) => out' = out ]_vars

\* a surviving row keeps a growth whose earlier month was filtered away
C9_Witness ==
    /\ out.rendered
    /\ \E i \in DOMAIN out.f :
          /\ out.f[i].rev_mom_growth.k = "fin"
          /\ EarlierOf(out.f, i) = {}

Valued(tbl, col) == {i \in DOMAIN tbl : ~IsNaN(tbl[i][col])}

Best(tbl, col, ascending) ==
    {i \in Valued(tbl, col) :
        \A j \in Valued(tbl, col) :
            IF ascending THEN ~LessQ(tbl[j][col], tbl[i][col])
            ELSE ~LessQ(tbl[i][col], tbl[j][col])}

FirstOfBest(t, col, ascending, label) ==
    Best(t, col, ascending) # {} =>
        label = t[MinOf(Best(t, col, ascending))].Product

LabelOk(t, col, ascending, label) ==
    IF Best(t, col, ascending) # {}
    THEN \E i \in Best(t, col, ascending) : t[i].Product = label
    ELSE \E i \in DOMAIN t : t[i].Product = label

====
